---- MODULE Spec2Model ----
(***************************************************************************)
(* Multi Stage Delta-V Calculator (src/MultistageDeltaV.py).               *)
(*                                                                         *)
(* The state is that of one DeltaVCalculator object: the list self.stages  *)
(* (one row of three Entry widgets per stage, each row owned by a Frame),  *)
(* the attribute self.stage_dvs, the text of self.result_label, and the    *)
(* figure the Plot handler draws.  Every Tk callback is one action; the    *)
(* mainloop runs them one at a time.                                       *)
(*                                                                         *)
(* Numbers.  The Entry texts used here are integer literals, which float() *)
(* converts exactly; sums of masses are therefore exact integers.  The     *)
(* results of np.log and of the products with g0 are kept in fixed point:  *)
(* a logarithm in units of 1/Scale, a delta-v in units of 0.001 m/s.  A    *)
(* float is a record [k, v]: k = "fin" with the value v, or k = "nan" /    *)
(* k = "ninf" (v = 0) for the IEEE values NaN and -Infinity.               *)
(***************************************************************************)
EXTENDS Integers, Sequences, FiniteSets

\* stages        self.stages: one record per row, in list order
\* next_frame    the number the next Frame object gets (Frames are numbered
\*               in the order add_stage creates them)
\* has_stage_dvs hasattr(self, 'stage_dvs')
\* stage_dvs     self.stage_dvs (<<>> while the attribute does not exist)
\* result_label  the text of self.result_label
\* event         the handler the mainloop ran last
\* chart         the figure that handler drew (NoChart if it drew none)
\* calculated    history: some Calculate has reached line 141
VARIABLES stages, next_frame, has_stage_dvs, stage_dvs, result_label,
          event, chart, calculated

vars == <<stages, next_frame, has_stage_dvs, stage_dvs, result_label,
          event, chart, calculated>>

\* Most stages shown at one time, and most Frame objects ever created.
MaxStages == 2
MaxFrames == 3

(***************************************************************************)
(* Entry texts, as sequences of characters.                                *)
(***************************************************************************)
Empty == <<>>

\* The rows a user types into the three Entry widgets of a stage:
\* <<wet text, dry text, isp text>>.
Rows ==
    { << <<"a", "b", "c">>, <<"1">>, <<"1">> >>,   \* wet is not a number
      << <<"1">>, <<"2">>, <<"1">> >>,             \* wet <= dry
      << <<"2">>, <<"1">>, <<"0">> >>,             \* Isp = 0
      << <<"2">>, <<"0">>, <<"1">> >>,             \* dry = 0
      << <<"3">>, <<"1">>, <<"2">> >> }            \* well formed

Digits == {"0", "1", "2", "3", "4", "5", "6", "7", "8", "9"}

DigitVal(c) ==
    CASE c = "0" -> 0 [] c = "1" -> 1 [] c = "2" -> 2 [] c = "3" -> 3
      [] c = "4" -> 4 [] c = "5" -> 5 [] c = "6" -> 6 [] c = "7" -> 7
      [] c = "8" -> 8 [] c = "9" -> 9

RECURSIVE DecimalVal(_)
DecimalVal(s) ==
    IF s = <<>> THEN 0
    ELSE 10 * DecimalVal(SubSeq(s, 1, Len(s) - 1)) + DigitVal(s[Len(s)])

IsDecimal(s) == Len(s) > 0 /\ \A i \in 1..Len(s) : s[i] \in Digits

\* float(text) for a text that is [sign] digits; any other text of Rows
\* (the empty Entry, "abc") raises ValueError.
PyFloat(s) ==
    IF IsDecimal(s) THEN [ok |-> TRUE, v |-> DecimalVal(s)]
    ELSE IF Len(s) > 1 /\ s[1] = "-" /\ IsDecimal(Tail(s))
         THEN [ok |-> TRUE, v |-> 0 - DecimalVal(Tail(s))]
    ELSE IF Len(s) > 1 /\ s[1] = "+" /\ IsDecimal(Tail(s))
         THEN [ok |-> TRUE, v |-> DecimalVal(Tail(s))]
    ELSE [ok |-> FALSE, v |-> 0]

(***************************************************************************)
(* Floating point values.                                                  *)
(***************************************************************************)
Scale == 10000
Ln2 == 6931
G0 == 980665

Fin(v) == [k |-> "fin", v |-> v]
NaN == [k |-> "nan", v |-> 0]
NegInf == [k |-> "ninf", v |-> 0]

\* x + y
FAdd(x, y) ==
    IF x.k = "nan" \/ y.k = "nan" THEN NaN
    ELSE IF x.k = "ninf" \/ y.k = "ninf" THEN NegInf
    ELSE Fin(x.v + y.v)

\* The least k >= 0 with a < b * 2^(k+1), for a >= b > 0.
RECURSIVE Halvings(_, _)
Halvings(a, b) == IF a < 2 * b THEN 0 ELSE 1 + Halvings(a, 2 * b)

RECURSIVE Pow2(_)
Pow2(k) == IF k = 0 THEN 1 ELSE 2 * Pow2(k - 1)

\* ln(a / b) in units of 1/Scale for a >= b > 0:
\* ln(a/b) = k ln 2 + 2 atanh((a - c) / (a + c)) with c = b 2^k.
LnGE(a, b) ==
    LET k  == Halvings(a, b)
        c  == b * Pow2(k)
        z  == ((a - c) * Scale) \div (a + c)
        z2 == (z * z) \div Scale
        z3 == (z * z2) \div Scale
        z5 == (z3 * z2) \div Scale
        z7 == (z5 * z2) \div Scale
    IN  k * Ln2 + 2 * (z + z3 \div 3 + z5 \div 5 + z7 \div 7)

\* np.log(a / b) for integers a, b with b # 0.
NpLogRatio(a, b) ==
    IF a = 0 THEN NegInf
    ELSE IF (a > 0) # (b > 0) THEN NaN
    ELSE LET p == IF a > 0 THEN a ELSE 0 - a
             q == IF b > 0 THEN b ELSE 0 - b
         IN  IF p >= q THEN Fin(LnGE(p, q)) ELSE Fin(0 - LnGE(q, p))

\* isp * g0 * log for isp > 0, in units of 0.001 m/s.
IspG0Log(isp, log) ==
    IF log.k # "fin" THEN log
    ELSE LET a  == isp * G0
             ah == a \div 1000
             al == a % 1000
             m  == IF log.v >= 0 THEN log.v ELSE 0 - log.v
             p  == (ah * m + (al * m) \div 1000) \div 1000
         IN  Fin(IF log.v >= 0 THEN p ELSE 0 - p)

\* Round a value in thousandths to the nearest multiple of `unit` thousandths
\* (ties to even), the result counted in those multiples: f"{x:.2f}" is
\* unit 10, f"{x:.1f}" is unit 100.
RoundTo(x, unit) ==
    IF x.k # "fin" THEN x
    ELSE LET m == IF x.v >= 0 THEN x.v ELSE 0 - x.v
             q == m \div unit
             r == m % unit
             n == IF 2 * r > unit \/ (2 * r = unit /\ q % 2 = 1)
                  THEN q + 1 ELSE q
         IN  Fin(IF x.v >= 0 THEN n ELSE 0 - n)

(***************************************************************************)
(* calculate_delta_v: validation (lines 111-125).                          *)
(***************************************************************************)
Failure(kind, n) == [ok |-> FALSE, kind |-> kind, stage |-> n, data |-> <<>>]

\* The comparison that rejects a stage's masses (line 117).
WetMassRejected(wet, dry) == wet <= dry

\* The comparison that rejects a stage's specific impulse (line 119).
IspRejected(isp) == isp <= 0

\* StageNumber with the loop index used as it is (an off-by-one message).
StageNumber_zero_based(i) == i

\* The 1-based number an error message names for loop index i (0-based).
StageNumber(i) == i + 1

\* The loop over enumerate(self.stages), from 0-based index i on, with the
\* tuples collected so far.  The first stage that fails ends the loop.
RECURSIVE ValidateFrom(_, _, _)
ValidateFrom(st, i, stages_data) ==
    IF i >= Len(st) THEN [ok |-> TRUE, kind |-> "", stage |-> 0, data |-> stages_data]
    ELSE LET wet == PyFloat(st[i + 1].wet)
             dry == PyFloat(st[i + 1].dry)
             isp == PyFloat(st[i + 1].isp)
         IN  IF ~wet.ok \/ ~dry.ok \/ ~isp.ok THEN Failure("parse", 0)
             ELSE IF WetMassRejected(wet.v, dry.v)
                  THEN Failure("wet_le_dry", StageNumber(i))
             ELSE IF IspRejected(isp.v)
                  THEN Failure("invalid_isp", StageNumber(i))
             ELSE ValidateFrom(st, i + 1,
                               Append(stages_data, <<wet.v, dry.v, isp.v>>))

\* Validate without the test of line 124.
Validate_no_empty_test(st) == ValidateFrom(st, 0, <<>>)

\* Lines 112-125: the loop, then the test for an empty list.
Validate(st) ==
    LET r == ValidateFrom(st, 0, <<>>)
    IN  IF r.ok /\ r.data = <<>> THEN Failure("no_stages", 0) ELSE r

(***************************************************************************)
(* calculate_delta_v: the rocket equation (lines 127-138).                 *)
(***************************************************************************)
\* sum(s[0] for s in seq)
RECURSIVE SumWet(_)
SumWet(seq) == IF seq = <<>> THEN 0 ELSE seq[1][1] + SumWet(Tail(seq))

\* stages_data[i:] for a 0-based i
SliceFrom(seq, i) == SubSeq(seq, i + 1, Len(seq))

\* initial_mass without the stages still attached above stage i.
initial_mass_own_wet(stages_data, i) == stages_data[i + 1][1]

\* Line 132, for the 0-based loop index i.
initial_mass(stages_data, i) == SumWet(SliceFrom(stages_data, i))

\* Line 133.
final_mass(stages_data, i) ==
    stages_data[i + 1][2] + SumWet(SliceFrom(stages_data, i + 1))

\* Line 136; the caller has checked final_mass # 0.
StageDv(stages_data, i) ==
    IspG0Log(stages_data[i + 1][3],
             NpLogRatio(initial_mass(stages_data, i), final_mass(stages_data, i)))

\* The loop of lines 130-138 from index i on.  A zero final mass makes the
\* float division raise ZeroDivisionError and ends the loop.
RECURSIVE ComputeFrom(_, _, _, _)
ComputeFrom(stages_data, i, stage_dvs_, total_dv) ==
    IF i >= Len(stages_data)
    THEN [ok |-> TRUE, kind |-> "", dvs |-> stage_dvs_, total |-> total_dv]
    ELSE IF final_mass(stages_data, i) = 0
         THEN [ok |-> FALSE, kind |-> "zero_division", dvs |-> <<>>, total |-> Fin(0)]
    ELSE LET dv == StageDv(stages_data, i)
         IN  ComputeFrom(stages_data, i + 1, Append(stage_dvs_, dv),
                         FAdd(total_dv, dv))

Compute(stages_data) == ComputeFrom(stages_data, 0, <<>>, Fin(0))

(***************************************************************************)
(* The texts of result_label.                                              *)
(***************************************************************************)
\* "Total Δv: " (line 42)
BlankLabel == [kind |-> "blank", err |-> "", stage |-> 0, value |-> Fin(0)]

\* f"Total Δv: {total_dv:.2f} m/s" (line 140); value in hundredths.
TotalLabel(total_dv) ==
    [kind |-> "total", err |-> "", stage |-> 0, value |-> RoundTo(total_dv, 10)]

\* f"Error: {str(e)}" (line 144); stage is the number in the message, 0 if
\* the message names none.
ErrorLabel(kind, n) == [kind |-> "error", err |-> kind, stage |-> n, value |-> Fin(0)]

\* "Calculate delta-V first!" (line 151)
CalculateFirstLabel == [kind |-> "calc_first", err |-> "", stage |-> 0, value |-> Fin(0)]

(***************************************************************************)
(* The handlers.                                                           *)
(***************************************************************************)
\* The handler the mainloop ran last: its name and, for Remove, its Frame.
Event(op, frame) == [op |-> op, frame |-> frame]

\* The value of chart after a handler that draws no figure.
NoChart == [drawn |-> FALSE, names |-> <<>>, values |-> <<>>, texts |-> <<>>]

\* The Frames created so far (live or destroyed).
Frames == 1..(next_frame - 1)

\* The dictionary add_stage appends (lines 78-83), with the text of the
\* "Stage n" label of the row (line 57) kept as num.
NewStage(frame, stage_num) ==
    [frame |-> frame, num |-> stage_num, wet |-> Empty, dry |-> Empty, isp |-> Empty]

\* Lines 50-83.
add_stage ==
    /\ Len(stages) < MaxStages
    /\ next_frame <= MaxFrames
    /\ stages' = Append(stages, NewStage(next_frame, Len(stages) + 1))
    /\ next_frame' = next_frame + 1
    /\ event' = Event("add", next_frame)
    /\ chart' = NoChart
    /\ UNCHANGED <<has_stage_dvs, stage_dvs, result_label, calculated>>

\* update_stage_numbers leaving the labels as they are.
update_stage_numbers_skipped(st) == st

\* Lines 97-101: every row's label is set to its position.
update_stage_numbers(st) == [i \in 1..Len(st) |-> [st[i] EXCEPT !.num = i]]

\* The index of the first stage whose Frame is stage_frame, 0 if none.
FirstMatch(st, stage_frame) ==
    IF \E i \in 1..Len(st) : st[i].frame = stage_frame
    THEN CHOOSE i \in 1..Len(st) :
            /\ st[i].frame = stage_frame
            /\ \A j \in 1..(i - 1) : st[j].frame # stage_frame
    ELSE 0

\* RemoveMatch taking the Frame's number for a position in the list.
RemoveMatch_by_position(st, stage_frame) ==
    IF stage_frame \in 1..Len(st)
    THEN SubSeq(st, 1, stage_frame - 1) \o SubSeq(st, stage_frame + 1, Len(st))
    ELSE st

\* Lines 88-92: the first matching dictionary is removed.
RemoveMatch(st, stage_frame) ==
    LET i == FirstMatch(st, stage_frame)
    IN  IF i = 0 THEN st
        ELSE SubSeq(st, 1, i - 1) \o SubSeq(st, i + 1, Len(st))

\* Lines 86-93, for any Frame the program has created.
remove_stage(stage_frame) ==
    /\ stages' = update_stage_numbers(RemoveMatch(stages, stage_frame))
    /\ event' = Event("remove", stage_frame)
    /\ chart' = NoChart
    /\ UNCHANGED <<next_frame, has_stage_dvs, stage_dvs, result_label, calculated>>

\* The user fills in the three Entry widgets of row i (lines 61-72).
type_entries(i, row) ==
    /\ <<stages[i].wet, stages[i].dry, stages[i].isp>> # row
    /\ stages' = [stages EXCEPT ![i].wet = row[1], ![i].dry = row[2],
                                ![i].isp = row[3]]
    /\ event' = Event("type", stages[i].frame)
    /\ chart' = NoChart
    /\ UNCHANGED <<next_frame, has_stage_dvs, stage_dvs, result_label, calculated>>

\* The outcome of the try block (lines 111-141).
Calculation(st) ==
    LET v == Validate(st)
    IN  IF ~v.ok
        THEN [ok |-> FALSE, kind |-> v.kind, stage |-> v.stage,
              dvs |-> <<>>, total |-> Fin(0)]
        ELSE LET c == Compute(v.data)
             IN  [ok |-> c.ok, kind |-> c.kind, stage |-> 0,
                  dvs |-> c.dvs, total |-> c.total]

\* Lines 105-144.
calculate_delta_v ==
    LET r == Calculation(stages)
    IN  /\ IF r.ok
           THEN /\ result_label' = TotalLabel(r.total)
                /\ has_stage_dvs' = TRUE
                /\ stage_dvs' = r.dvs
                /\ calculated' = TRUE
           ELSE /\ result_label' = ErrorLabel(r.kind, r.stage)
                /\ UNCHANGED <<has_stage_dvs, stage_dvs, calculated>>
        /\ event' = Event("calculate", 0)
        /\ chart' = NoChart
        /\ UNCHANGED <<stages, next_frame>>

\* sum(values) of floats
RECURSIVE FSum(_)
FSum(values) ==
    IF values = <<>> THEN Fin(0)
    ELSE FAdd(FSum(SubSeq(values, 1, Len(values) - 1)), values[Len(values)])

\* NothingToPlot without the guard of line 150.
NothingToPlot_unguarded == FALSE

\* Line 150.
NothingToPlot == ~has_stage_dvs \/ stage_dvs = <<>>

\* Lines 155-158 and 162-171: the bar names, the heights, and the text put
\* above each bar (f'{height:.1f}', in tenths).
Figure(dvs) ==
    LET values == Append(dvs, FSum(dvs))
    IN  [drawn  |-> TRUE,
         names  |-> [i \in 1..Len(dvs) |-> <<"Stage", i>>] \o << <<"Total", 0>> >>,
         values |-> values,
         texts  |-> [i \in 1..Len(values) |-> RoundTo(values[i], 100)]]

\* Lines 148-175.
plot_stages ==
    /\ IF NothingToPlot
       THEN /\ result_label' = CalculateFirstLabel
            /\ chart' = NoChart
       ELSE /\ chart' = Figure(stage_dvs)
            /\ UNCHANGED result_label
    /\ event' = Event("plot", 0)
    /\ UNCHANGED <<stages, next_frame, has_stage_dvs, stage_dvs, calculated>>

\* Lines 17-46: the constructor adds the first stage.
Init ==
    /\ stages = <<NewStage(1, 1)>>
    /\ next_frame = 2
    /\ has_stage_dvs = FALSE
    /\ stage_dvs = <<>>
    /\ result_label = BlankLabel
    /\ event = Event("init", 0)
    /\ chart = NoChart
    /\ calculated = FALSE

Next ==
    \/ add_stage
    \/ \E f \in Frames : remove_stage(f)
    \/ \E i \in 1..Len(stages) : \E row \in Rows : type_entries(i, row)
    \/ calculate_delta_v
    \/ plot_stages

Spec == Init /\ [][Next]_vars

(***************************************************************************)
(* Properties.  The numbers a calculation reads are restated here from the *)
(* Entry texts of the current stages, by position.                         *)
(***************************************************************************)
N == Len(stages)

AllParse ==
    \A i \in 1..N : /\ PyFloat(stages[i].wet).ok
                    /\ PyFloat(stages[i].dry).ok
                    /\ PyFloat(stages[i].isp).ok

WetMass(i) == PyFloat(stages[i].wet).v
DryMass(i) == PyFloat(stages[i].dry).v
SpecificImpulse(i) == PyFloat(stages[i].isp).v

\* The sum of the wet masses of stages lo..hi (1-based, empty if lo > hi).
RECURSIVE WetMassOver(_, _)
WetMassOver(lo, hi) == IF lo > hi THEN 0 ELSE WetMassOver(lo, hi - 1) + WetMass(hi)

\* The sum of a sequence of floats, first element first.
RECURSIVE Total(_)
Total(values) == IF values = <<>> THEN Fin(0) ELSE FAdd(values[1], Total(Tail(values)))

\* The handler that ran last was Calculate, and it showed a total.
CalculateSucceeded == event.op = "calculate" /\ result_label.kind = "total"

\* Some stage breaks a validation rule.
RuleBroken(i) == WetMass(i) <= DryMass(i) \/ SpecificImpulse(i) <= 0

\* C1: after a successful Calculate of N stages, the value stored for every
\* stage i is the rocket equation applied to initial_mass(i) = the wet masses
\* of stages i..N and final_mass(i) = dry_mass(i) + the wet masses of stages
\* i+1..N.
C1_StagedMasses ==
    CalculateSucceeded =>
        /\ Len(stage_dvs) = N
        /\ \A i \in 1..N :
              stage_dvs[i] = IspG0Log(SpecificImpulse(i),
                                      NpLogRatio(WetMassOver(i, N),
                                                 DryMass(i) + WetMassOver(i + 1, N)))

\* Two stages (2, 0) and (3, 1): the first burns from 5 to 3, the second from 3 to 1.
C1_Witness ==
    /\ CalculateSucceeded
    /\ N = 2
    /\ WetMassOver(1, 2) = 5 /\ DryMass(1) + WetMassOver(2, 2) = 3
    /\ WetMassOver(2, 2) = 3 /\ DryMass(2) = 1
    /\ stage_dvs[1].k = "fin" /\ stage_dvs[1].v > 0

\* C2 (as claimed): a Calculate of a non-empty sequence whose stages all have
\* wet > dry and Isp > 0 succeeds, stores N values and shows their sum.
C2_ValidStagesSucceed ==
    (/\ event.op = "calculate"
     /\ N > 0
     /\ AllParse
     /\ \A i \in 1..N : WetMass(i) > DryMass(i) /\ SpecificImpulse(i) > 0)
    => /\ result_label.kind = "total"
       /\ has_stage_dvs
       /\ Len(stage_dvs) = N
       /\ result_label.value = RoundTo(Total(stage_dvs), 10)

\* C3: when every field parses and some stage has wet <= dry or Isp <= 0,
\* Calculate shows an invalid-stage error, not a total, and the stage number
\* in the message is that of a stage that breaks the rule the message names.
C3_InvalidStageReported ==
    (event.op = "calculate" /\ AllParse /\ \E i \in 1..N : RuleBroken(i))
    => /\ result_label.kind = "error"
       /\ result_label.err \in {"wet_le_dry", "invalid_isp"}
       /\ result_label.stage \in 1..N
       /\ result_label.err = "wet_le_dry"
             => WetMass(result_label.stage) <= DryMass(result_label.stage)
       /\ result_label.err = "invalid_isp"
             => SpecificImpulse(result_label.stage) <= 0

\* A well-formed first stage, and a second stage with wet <= dry.
C3_Witness ==
    /\ event.op = "calculate"
    /\ N = 2
    /\ AllParse
    /\ ~RuleBroken(1)
    /\ WetMass(2) <= DryMass(2)
    /\ result_label.err = "wet_le_dry"
    /\ result_label.stage = 2

\* C4: a Calculate on the empty sequence shows the empty-sequence error and
\* leaves self.stage_dvs as it was.
C4_EmptySequence ==
    [][(event'.op = "calculate" /\ stages = <<>>)
        => /\ result_label' = ErrorLabel("no_stages", 0)
           /\ has_stage_dvs' = has_stage_dvs
           /\ stage_dvs' = stage_dvs]_vars

\* Every stage was removed, the first one included, and Calculate ran.
C4_Witness ==
    /\ event.op = "calculate"
    /\ stages = <<>>
    /\ result_label.err = "no_stages"
    /\ ~has_stage_dvs

\* C5 (as claimed): whenever a Calculate gets past validation, every stage has
\* positive wet mass, dry mass and Isp, wet > dry, and a positive final mass.
C5_ValidatedStagesWellFormed ==
    (event.op = "calculate" /\ Validate(stages).ok)
    => \A i \in 1..N :
          /\ WetMass(i) > 0 /\ DryMass(i) > 0 /\ SpecificImpulse(i) > 0
          /\ WetMass(i) > DryMass(i)
          /\ DryMass(i) + WetMassOver(i + 1, N) > 0

C7_ResultMatchesStages == has_stage_dvs => Len(stage_dvs) = N

\* C8: Plot draws only after some Calculate has succeeded; before that it
\* draws nothing and asks to calculate first.  A figure has one bar per stored
\* value, in order, then a Total bar as high as their sum.
C8_PlotAfterCalculate ==
    /\ chart.drawn =>
          /\ calculated
          /\ event.op = "plot"
          /\ Len(chart.values) = Len(stage_dvs) + 1
          /\ Len(chart.names) = Len(chart.values)
          /\ \A i \in 1..Len(stage_dvs) :
                chart.values[i] = stage_dvs[i] /\ chart.names[i] = <<"Stage", i>>
          /\ chart.names[Len(chart.names)] = <<"Total", 0>>
          /\ chart.values[Len(chart.values)] = Total(stage_dvs)
    /\ (event.op = "plot" /\ ~calculated) =>
          ~chart.drawn /\ result_label = CalculateFirstLabel

\* A figure of two stages and their total.
C8_Witness ==
    /\ chart.drawn
    /\ Len(chart.values) = 3
    /\ chart.values[3] = FAdd(chart.values[1], chart.values[2])
    /\ chart.values[3].v > chart.values[1].v

\* C9 (as claimed): right after a Calculate the result a Plot would draw is
\* the one that Calculate computed: a failed Calculate leaves none.
C9_ResultIsFresh ==
    event.op = "calculate" =>
        \/ result_label.kind = "total" /\ has_stage_dvs /\ Len(stage_dvs) = N
        \/ result_label.kind = "error" /\ NothingToPlot

\* The Frames of a sequence of stages, in order.
FrameSeq(st) == [i \in 1..Len(st) |-> st[i].frame]

\* A row without its "Stage n" label.
Row(s) == [frame |-> s.frame, wet |-> s.wet, dry |-> s.dry, isp |-> s.isp]
RowSeq(st) == [i \in 1..Len(st) |-> Row(st[i])]

\* The rows of st whose Frame is not f, in order.
RECURSIVE Without(_, _)
Without(st, f) ==
    IF st = <<>> THEN <<>>
    ELSE IF st[1].frame = f THEN Without(Tail(st), f)
    ELSE <<Row(st[1])>> \o Without(Tail(st), f)

\* C10: Calculate, Plot and a Remove of a Frame that is not in the sequence
\* leave the sequence as it is; a Remove of a Frame that is in it takes out
\* that one stage and nothing else; the Frames in the sequence change only by
\* Add and Remove.
C10_SequenceFrame ==
    [][/\ event'.op \in {"calculate", "plot"} => stages' = stages
       /\ (event'.op = "remove" /\ \A i \in 1..N : stages[i].frame # event'.frame)
             => stages' = stages
       /\ (event'.op = "remove" /\ \E i \in 1..N : stages[i].frame = event'.frame)
             => /\ Len(stages') = N - 1
                /\ RowSeq(stages') = Without(stages, event'.frame)
       /\ FrameSeq(stages') # FrameSeq(stages) => event'.op \in {"add", "remove"}
      ]_vars

\* Frame 1 is gone, Frames 2 and 3 are shown, and Remove ran for Frame 1.
C10_Witness ==
    /\ event = Event("remove", 1)
    /\ FrameSeq(stages) = <<2, 3>>

====
